---- MODULE Spec2Model ----
(***************************************************************************)
(* A model of eval-ner_nli/run_ner.py: the token-classification driver.    *)
(* Python's None is modelled by reserved values (NoneIdx for a word index, *)
(* "None" for optional strings); Python's 0-based indices are kept, so     *)
(* label[w] in the source is label[w + 1] here.                            *)
(***************************************************************************)
EXTENDS Integers, Sequences, FiniteSets, TLC

VARIABLES
    pc,                 \* position of the script / of the function under study
    error,              \* "none" or the exception that ended the run
    \* ---- tokenize_and_align_labels ----
    classlabel,         \* isinstance(features[label_column_name].feature, ClassLabel)
    label_all_tokens,   \* data_args.label_all_tokens
    add_special_tokens, \* whether the tokenizer frames a sequence with special tokens
    max_seq_length,     \* data_args.max_seq_length (NoMaxLength models None)
    pad_to_max_length,  \* data_args.pad_to_max_length
    label_list,         \* the label vocabulary, in index order
    label_to_id,        \* tag -> index
    batch_index,        \* number of examples of the batch already aligned (i)
    label,              \* tags of the example being aligned (examples[label_column_name][i])
    word_ids,           \* tokenized_inputs.word_ids(batch_index=i)
    input_ids,          \* tokenized_inputs["input_ids"][i]
    label_ids,          \* label_ids of the example being aligned
    previous_word_idx,  \* previous_word_idx when the inner loop ended
    labels_len,         \* len(labels): label sequences appended so far
    \* ---- compute_metrics ----
    return_entity_level_metrics, \* data_args.return_entity_level_metrics
    prediction,         \* np.argmax(predictions, axis=2)[i]: the example being filtered
    labels_row,         \* labels[i]: its gold labels, -100 where ignored
    true_prediction,    \* true_predictions[i]
    true_label,         \* true_labels[i]
    n_filtered,         \* examples filtered so far
    results,            \* metric.compute(...)
    final_results,      \* the dictionary compute_metrics returns
    \* ---- the scan of the label column ----
    train_labels,       \* raw_datasets["train"][label_column_name]
    prev_label_list,    \* label_list of the previous run on the same data
    prev_label_to_id,   \* label_to_id of the previous run on the same data
    scans,              \* runs of the builder so far
    \* ---- main ----
    model_args,         \* ModelArguments
    data_args,          \* DataTrainingArguments
    training_args,      \* TrainingArguments
    adapter_args,       \* MultiLingAdapterArguments
    env,                \* what the run finds outside: the hub dataset or the files, the
                        \* output directory, the kind of tokenizer
    last_checkpoint,    \* last_checkpoint (275-277)
    raw_datasets,       \* raw_datasets: split name -> the split
    column_names,       \* column_names (321, 324)
    text_column_name,   \* text_column_name (327-332)
    label_column_name,  \* label_column_name (334-339)
    config,             \* label information given to AutoConfig.from_pretrained (368-370)
    loaded,             \* the from_pretrained calls executed, in order
    embeddings,         \* the class of model.bert.embeddings
    embedding_sources,  \* embedding_1..embedding_6 as passed to the composite module
    tokenizer_sources,  \* tokenizer_1..tokenizer_6 as passed to the domain composite
    requires_grad,      \* model.bert.named_parameters(): name -> requires_grad
    substitutions,      \* number of assignments to model.bert.embeddings
    active_adapters,    \* the adapters set active (567, 569)
    tokenized,          \* the splits mapped through tokenize_and_align_labels
    true_predictions,   \* true_predictions of the predict block (767-770)
    output_steps,       \* the writes to the output directory, in order
    predictions_file,   \* the lines of predictions.txt
    trainer_built,      \* the Trainer is constructed (718-726)
    checkpoint,         \* resume_from_checkpoint passed to trainer.train (735)
    phases              \* the trainer phases run, in order

vocabVars == <<label_list, label_to_id>>
alignConfig == <<classlabel, label_all_tokens, add_special_tokens, max_seq_length,
                 pad_to_max_length>>
alignVars == <<alignConfig, batch_index, label, word_ids, input_ids, label_ids,
               previous_word_idx, labels_len>>
metricVars == <<return_entity_level_metrics, prediction, labels_row, true_prediction, true_label,
                n_filtered, results, final_results>>

scanVars == <<train_labels, prev_label_list, prev_label_to_id, scans>>

argVars == <<model_args, data_args, training_args, adapter_args, env>>
composerVars == <<embedding_sources, tokenizer_sources, requires_grad, substitutions>>
outputVars == <<true_predictions, output_steps, predictions_file>>
mainVars == <<argVars, last_checkpoint, raw_datasets, column_names, text_column_name,
              label_column_name, loaded, embeddings, composerVars, active_adapters, tokenized, outputVars, config,
              trainer_built, checkpoint, phases>>

vars == <<pc, error, vocabVars, alignVars, metricVars, scanVars, mainVars>>

\* What the steps of one function leave alone: the state of the others.
notAlign == <<metricVars, scanVars, mainVars>>
notMetrics == <<alignVars, scanVars, mainVars>>
notScan == <<alignVars, metricVars, mainVars>>
notMain == <<alignVars, metricVars, scanVars>>

\* ---------------------------------------------------------------- bounds
MaxWords == 2
MaxBatch == 2
MaxPositions == 2
MaxTrainExamples == 2
MaxScans == 2
MaxSeqLength == 6
ModelMaxLength == 8

\* ---------------------------------------------------------------- values
NoneIdx == -1
IgnoreIndex == -100
NoMaxLength == 0

Tags == {"B-LOC", "I-LOC", "O"}
\* Python compares str by code point: "B-LOC" < "I-LOC" < "O".
TagOrder == <<"B-LOC", "I-LOC", "O">>
\* Sub-word pieces one word can be split into (0: the tokenizer drops the word).
PieceCounts == 0..2
\* The example of the end-to-end scenario: New York is big.
ScenarioTags == <<"B-LOC", "I-LOC", "O", "O">>

Range(s) == {s[i] : i \in 1..Len(s)}
SeqsUpTo(S, n) == UNION {[1..k -> S] : k \in 1..n}
Min(a, b) == IF a < b THEN a ELSE b

StrRank(s) == CHOOSE i \in 1..Len(TagOrder) : TagOrder[i] = s
StrLess(a, b) == StrRank(a) < StrRank(b)

\* ------------------------------------------------- label vocabulary (343-357)
RECURSIVE UnionLabels(_, _)
UnionLabels(labels, unique_labels) ==
    IF labels = <<>> THEN unique_labels
    ELSE UnionLabels(Tail(labels), unique_labels \cup Range(Head(labels)))

\* list.sort(): insertion of each element of the list into a sorted list.
RECURSIVE SortInsert(_, _)
SortInsert(x, sorted) ==
    IF sorted = <<>> THEN <<x>>
    ELSE IF StrLess(Head(sorted), x) THEN <<Head(sorted)>> \o SortInsert(x, Tail(sorted))
    ELSE <<x>> \o sorted

RECURSIVE ListSort(_)
ListSort(l) == IF l = <<>> THEN <<>> ELSE SortInsert(Head(l), ListSort(Tail(l)))

\* list(unique_labels): the elements of the set in the order the hash table
\* yields them, which str hash randomisation changes from process to process.
\* hash_order lists every tag in hash-table order.
ListOfSet(S, hash_order) == SelectSeq(hash_order, LAMBDA t : t \in S)
HashOrders == {h \in [1..Cardinality(Tags) -> Tags] : Range(h) = Tags}

\* Mutant of get_label_list: the list is returned unsorted.
get_label_list_unsorted(labels, hash_order) ==
    ListOfSet(UnionLabels(labels, {}), hash_order)

get_label_list(labels, hash_order) ==
    ListSort(ListOfSet(UnionLabels(labels, {}), hash_order))

\* Mutant of ScanLabelToId: the enumeration starts at 1.
ScanLabelToIdFromOne(ll) == [l \in Range(ll) |-> CHOOSE i \in 1..Len(ll) : ll[i] = l]

ScanLabelToId(ll) == [l \in Range(ll) |-> (CHOOSE i \in 1..Len(ll) : ll[i] = l) - 1]

\* ------------------------------------------------------ tokenizer (592-603)
RECURSIVE Repeat(_, _)
Repeat(x, n) == IF n = 0 THEN <<>> ELSE <<x>> \o Repeat(x, n - 1)

\* The word index of every piece, words in order: word k (0-based) pieces[k+1] times.
RECURSIVE PieceWords(_, _)
PieceWords(pieces, k) ==
    IF k >= Len(pieces) THEN <<>>
    ELSE Repeat(k, pieces[k + 1]) \o PieceWords(pieces, k + 1)

MaxLength == IF max_seq_length = NoMaxLength THEN ModelMaxLength ELSE max_seq_length
NumSpecial == IF add_special_tokens THEN 2 ELSE 0
Truncated(pieces) == SubSeq(PieceWords(pieces, 0), 1,
                            Min(Len(PieceWords(pieces, 0)), MaxLength - NumSpecial))
FramedLen(pieces) == Len(Truncated(pieces)) + NumSpecial
Padding(pieces) == IF pad_to_max_length THEN MaxLength - FramedLen(pieces) ELSE 0

TokenizerWordIds(pieces) ==
    (IF add_special_tokens THEN <<NoneIdx>> ELSE <<>>)
    \o Truncated(pieces)
    \o (IF add_special_tokens THEN <<NoneIdx>> ELSE <<>>)
    \o Repeat(NoneIdx, Padding(pieces))

TokenizerInputIds(pieces) ==
    (IF add_special_tokens THEN <<"[CLS]">> ELSE <<>>)
    \o [i \in 1..Len(Truncated(pieces)) |-> "piece"]
    \o (IF add_special_tokens THEN <<"[SEP]">> ELSE <<>>)
    \o Repeat("[PAD]", Padding(pieces))

\* ------------------------------------- tokenize_and_align_labels (602-619)
\* Mutant of AlignOne: the label_all_tokens flag is not consulted.
AlignOneFlagIgnored(word_idx, prev, lab, l2id, all_tokens) ==
    IF word_idx = NoneIdx THEN IgnoreIndex
    ELSE l2id[lab[word_idx + 1]]

\* Mutant of AlignOne: a special or padding position gets class 0 when all
\* sub-word pieces are labelled.
AlignOneNoneLabelled(word_idx, prev, lab, l2id, all_tokens) ==
    IF word_idx = NoneIdx THEN (IF all_tokens THEN 0 ELSE IgnoreIndex)
    ELSE IF word_idx # prev THEN l2id[lab[word_idx + 1]]
    ELSE IF all_tokens THEN l2id[lab[word_idx + 1]] ELSE IgnoreIndex

\* One iteration of the inner loop: the label appended for word_idx.
AlignOne(word_idx, prev, lab, l2id, all_tokens) ==
    IF word_idx = NoneIdx THEN IgnoreIndex
    ELSE IF word_idx # prev THEN l2id[lab[word_idx + 1]]
    ELSE IF all_tokens THEN l2id[lab[word_idx + 1]] ELSE IgnoreIndex

\* Mutant of AlignLoop: nothing is appended for a position without a word.
RECURSIVE AlignLoopSkipNone(_, _, _, _, _)
AlignLoopSkipNone(wids, prev, lab, l2id, all_tokens) ==
    IF wids = <<>> THEN <<>>
    ELSE (IF Head(wids) = NoneIdx THEN <<>>
          ELSE <<AlignOne(Head(wids), prev, lab, l2id, all_tokens)>>)
         \o AlignLoopSkipNone(Tail(wids), Head(wids), lab, l2id, all_tokens)

RECURSIVE AlignLoop(_, _, _, _, _)
AlignLoop(wids, prev, lab, l2id, all_tokens) ==
    IF wids = <<>> THEN <<>>
    ELSE <<AlignOne(Head(wids), prev, lab, l2id, all_tokens)>>
         \o AlignLoop(Tail(wids), Head(wids), lab, l2id, all_tokens)

\* Mutant of InitialPrevious: previous_word_idx is not reset between examples.
CarriedPrevious(carried) == carried

\* previous_word_idx = None at the start of every example (604).
InitialPrevious(carried) == NoneIdx

\* A tag the loop looks up that label_to_id does not hold raises KeyError.
LookupFails(wids, lab, l2id) ==
    \E i \in 1..Len(wids) : wids[i] # NoneIdx /\ lab[wids[i] + 1] \notin DOMAIN l2id

\* The label column of one example: tag strings, or class indices when the
\* column is a Sequence[ClassLabel].
ExampleLabels ==
    IF classlabel THEN SeqsUpTo(0..(Len(label_list) - 1), MaxWords)
    ELSE SeqsUpTo(Tags, MaxWords) \cup {ScenarioTags}

LastOr(s, d) == IF s = <<>> THEN d ELSE s[Len(s)]

\* Lines 602-605: the outer loop takes example i = batch_index of the batch;
\* its tags and its row of the tokenization are read here.
NextExample ==
    /\ pc = "for_example"
    /\ batch_index < MaxBatch
    /\ \E lab \in ExampleLabels :
         \E pieces \in [1..Len(lab) -> PieceCounts] :
           /\ label' = lab
           /\ word_ids' = TokenizerWordIds(pieces)
           /\ input_ids' = TokenizerInputIds(pieces)
    /\ previous_word_idx' = InitialPrevious(previous_word_idx)
    /\ label_ids' = <<>>
    /\ pc' = "for_word_idx"
    /\ UNCHANGED <<error, vocabVars, alignConfig, batch_index, labels_len,
                   notAlign>>

\* Lines 606-618: the inner loop over word_ids.
AlignExample ==
    /\ pc = "for_word_idx"
    /\ IF LookupFails(word_ids, label, label_to_id)
       THEN /\ pc' = "raised"
            /\ error' = "KeyError"
            /\ UNCHANGED <<label_ids, previous_word_idx>>
       ELSE /\ label_ids' = AlignLoop(word_ids, previous_word_idx, label, label_to_id,
                                     label_all_tokens)
            /\ previous_word_idx' = LastOr(word_ids, previous_word_idx)
            /\ pc' = "append"
            /\ UNCHANGED error
    /\ UNCHANGED <<vocabVars, alignConfig, batch_index, label, word_ids, input_ids,
                   labels_len,
                   notAlign>>

\* Line 619: labels.append(label_ids); the outer loop goes to the next example.
AppendLabels ==
    /\ pc = "append"
    /\ labels_len' = labels_len + 1
    /\ batch_index' = batch_index + 1
    /\ label' = <<>>
    /\ word_ids' = <<>>
    /\ input_ids' = <<>>
    /\ label_ids' = <<>>
    /\ pc' = "for_example"
    /\ UNCHANGED <<error, vocabVars, alignConfig, previous_word_idx,
                   notAlign>>

\* Lines 630-631: the batch is exhausted and tokenized_inputs is returned.
ReturnTokenized ==
    /\ pc = "for_example"
    /\ batch_index >= 1
    /\ pc' = "returned"
    /\ UNCHANGED <<error, vocabVars, alignVars,
                   notAlign>>

\* No configuration is loaded yet.
NoConfig == [num_labels |-> 0, label2id |-> {}, id2label |-> {}]

\* main has not run: the functions are studied on their own.
MainIdle ==
    /\ model_args = <<>>
    /\ data_args = <<>>
    /\ training_args = <<>>
    /\ adapter_args = <<>>
    /\ env = <<>>
    /\ last_checkpoint = "None"
    /\ raw_datasets = <<>>
    /\ column_names = <<>>
    /\ text_column_name = "None"
    /\ label_column_name = "None"
    /\ loaded = <<>>
    /\ embeddings = "BertEmbeddings"
    /\ embedding_sources = <<>>
    /\ tokenizer_sources = <<>>
    /\ requires_grad = <<>>
    /\ substitutions = 0
    /\ active_adapters = <<>>
    /\ tokenized = {}
    /\ config = NoConfig
    /\ true_predictions = <<>>
    /\ output_steps = <<>>
    /\ predictions_file = <<>>
    /\ trainer_built = FALSE
    /\ checkpoint = "None"
    /\ phases = <<>>

\* The label column has not been scanned.
ScanIdle ==
    /\ train_labels = <<>>
    /\ prev_label_list = <<>>
    /\ prev_label_to_id = <<>>
    /\ scans = 0

\* tokenize_and_align_labels has not been called.
AlignIdle ==
    /\ label_all_tokens = FALSE
    /\ add_special_tokens = TRUE
    /\ max_seq_length = NoMaxLength
    /\ pad_to_max_length = FALSE
    /\ batch_index = 0
    /\ label = <<>>
    /\ word_ids = <<>>
    /\ input_ids = <<>>
    /\ label_ids = <<>>
    /\ previous_word_idx = NoneIdx
    /\ labels_len = 0

\* compute_metrics has not been called.
MetricsIdle ==
    /\ return_entity_level_metrics = FALSE
    /\ prediction = <<>>
    /\ labels_row = <<>>
    /\ true_prediction = <<>>
    /\ true_label = <<>>
    /\ n_filtered = 0
    /\ results = <<>>
    /\ final_results = <<>>

\* The vocabularies the alignment is studied under: two scans (351-357, else
\* branch) and one ClassLabel column (if branch).
ClassLabelNames == <<"O", "B-LOC", "I-LOC">>
AlignTrainColumns == {<<ScenarioTags>>, <<<<"O", "B-LOC">>, <<"O">>>>}

InitAlign ==
    /\ pc = "for_example"
    /\ error = "none"
    /\ classlabel \in BOOLEAN
    /\ label_all_tokens \in BOOLEAN
    /\ add_special_tokens \in BOOLEAN
    /\ max_seq_length \in {NoMaxLength, MaxSeqLength}
    /\ pad_to_max_length \in BOOLEAN
    /\ IF classlabel
       THEN /\ label_list = ClassLabelNames
            /\ label_to_id = [i \in 0..(Len(ClassLabelNames) - 1) |-> i]
       ELSE \E col \in AlignTrainColumns :
            /\ label_list = get_label_list(col, TagOrder)
            /\ label_to_id = ScanLabelToId(get_label_list(col, TagOrder))
    /\ batch_index = 0
    /\ label = <<>>
    /\ word_ids = <<>>
    /\ input_ids = <<>>
    /\ label_ids = <<>>
    /\ previous_word_idx = NoneIdx
    /\ labels_len = 0
    /\ MetricsIdle
    /\ ScanIdle
    /\ MainIdle

NextAlign == NextExample \/ AlignExample \/ AppendLabels \/ ReturnTokenized

SpecAlign == InitAlign /\ [][NextAlign]_vars

\* ------------------------------------- the scan-based builder (343-357)
\* Label sequences of the train split.
VocabRows == SeqsUpTo(Tags, 2)
Reordered(labels, perm) == [i \in 1..Len(labels) |-> labels[perm[i]]]

\* Lines 356-357: one run of the builder, on the train label column in any
\* order of its sequences and under any hash order of the process.
ScanLabels ==
    /\ pc = "scan"
    /\ scans < MaxScans
    /\ \E hash_order \in HashOrders, perm \in Permutations(1..Len(train_labels)) :
         /\ label_list' = get_label_list(Reordered(train_labels, perm), hash_order)
         /\ label_to_id' =
              ScanLabelToId(get_label_list(Reordered(train_labels, perm), hash_order))
    /\ prev_label_list' = label_list
    /\ prev_label_to_id' = label_to_id
    /\ scans' = scans + 1
    /\ UNCHANGED <<pc, error, train_labels, notScan>>

InitScan ==
    /\ pc = "scan"
    /\ error = "none"
    /\ train_labels \in SeqsUpTo(VocabRows, MaxTrainExamples)
    /\ label_list = <<>>
    /\ label_to_id = <<>>
    /\ prev_label_list = <<>>
    /\ prev_label_to_id = <<>>
    /\ scans = 0
    /\ classlabel = FALSE
    /\ AlignIdle
    /\ MetricsIdle
    /\ MainIdle

NextScan == ScanLabels

SpecScan == InitScan /\ [][NextScan]_vars

\* ------------------------------------------------ compute_metrics (684-714)
\* np.argmax over the label axis (686): the first index of the largest logit.
Argmax(logits) ==
    CHOOSE i \in 0..(Len(logits) - 1) :
        /\ \A j \in 0..(Len(logits) - 1) : logits[j + 1] <= logits[i + 1]
        /\ \A j \in 0..(i - 1) : logits[j + 1] < logits[i + 1]
ArgmaxRow(row) == [i \in 1..Len(row) |-> Argmax(row[i])]

\* Logit vectors over k labels: one label ahead, or all tied.
LogitVectors(k) ==
    {[i \in 1..k |-> IF i = hot THEN 1 ELSE 0] : hot \in 1..k} \cup {[i \in 1..k |-> 0]}

\* Mutant of FilterPredictions: a position is dropped on the prediction, not
\* on the gold label.
RECURSIVE FilterOnPrediction(_, _, _)
FilterOnPrediction(pred, lab, ll) ==
    IF pred = <<>> \/ lab = <<>> THEN <<>>
    ELSE (IF Head(pred) # IgnoreIndex THEN <<ll[Head(pred) + 1]>> ELSE <<>>)
         \o FilterOnPrediction(Tail(pred), Tail(lab), ll)

\* [label_list[p] for (p, l) in zip(prediction, label) if l != -100] (690)
RECURSIVE FilterPredictions(_, _, _)
FilterPredictions(pred, lab, ll) ==
    IF pred = <<>> \/ lab = <<>> THEN <<>>
    ELSE (IF Head(lab) # IgnoreIndex THEN <<ll[Head(pred) + 1]>> ELSE <<>>)
         \o FilterPredictions(Tail(pred), Tail(lab), ll)

\* [label_list[l] for (p, l) in zip(prediction, label) if l != -100] (694)
RECURSIVE FilterLabels(_, _, _)
FilterLabels(pred, lab, ll) ==
    IF pred = <<>> \/ lab = <<>> THEN <<>>
    ELSE (IF Head(lab) # IgnoreIndex THEN <<ll[Head(lab) + 1]>> ELSE <<>>)
         \o FilterLabels(Tail(pred), Tail(lab), ll)

\* A value of the scorer's dictionary: a score, or a dictionary of scores.
Scalar(x) == [is_dict |-> FALSE, value |-> x, items |-> <<>>]
Dict(f) == [is_dict |-> TRUE, value |-> 0, items |-> f]
Scores == {0, 1}
\* The scalars lines 710-713 read from the scorer's dictionary.
OverallKeys == {"overall_precision", "overall_recall", "overall_f1", "overall_accuracy"}
EntityTypes == {"LOC", "PER"}
EntityMetricNames == {"precision", "recall", "f1", "number"}
\* What metric.compute can return: the overall scalars and one dictionary per
\* entity type it found.
ScorerResults ==
    {[k \in OverallKeys \cup DOMAIN ent |->
        IF k \in OverallKeys THEN Scalar(ov[k])
        ELSE Dict([n \in EntityMetricNames |-> ent[k]])] :
     ov \in [OverallKeys -> Scores],
     ent \in UNION {[E -> Scores] : E \in SUBSET EntityTypes}}

\* Mutant of FlattenItems: a nested dictionary is kept under its own key.
RECURSIVE FlattenShallow(_, _, _)
FlattenShallow(res, keys, acc) ==
    IF keys = {} THEN acc
    ELSE LET key == CHOOSE k \in keys : TRUE
         IN FlattenShallow(res, keys \ {key}, (key :> res[key].value) @@ acc)

\* The loop of lines 701-706 over results.items(), acc being final_results.
RECURSIVE FlattenItems(_, _, _)
FlattenItems(res, keys, acc) ==
    IF keys = {} THEN acc
    ELSE LET key == CHOOSE k \in keys : TRUE
             value == res[key]
         IN FlattenItems(res, keys \ {key},
              IF value.is_dict
              THEN [k \in {key \o "_" \o n : n \in DOMAIN value.items} |->
                      value.items[CHOOSE n \in DOMAIN value.items : key \o "_" \o n = k]]
                   @@ acc
              ELSE (key :> value.value) @@ acc)

\* Lines 709-714.
OverallOnly(res) ==
    [k \in {"precision", "recall", "f1", "accuracy"} |-> res["overall_" \o k].value]

\* Lines 698-714: what compute_metrics returns for the scorer's results.
ReturnedMetrics(res, entity_level) ==
    IF entity_level THEN FlattenItems(res, DOMAIN res, <<>>) ELSE OverallOnly(res)

GoldLabels == {IgnoreIndex} \cup (0..(Len(label_list) - 1))

\* Lines 686-696 for one example of the evaluation batch.
FilterExample ==
    /\ pc = "filter"
    /\ n_filtered < MaxBatch
    /\ \E n \in 1..MaxPositions :
         \E logits \in [1..n -> LogitVectors(Len(label_list))], gold \in [1..n -> GoldLabels] :
           /\ prediction' = ArgmaxRow(logits)
           /\ labels_row' = gold
           /\ true_prediction' = FilterPredictions(ArgmaxRow(logits), gold, label_list)
           /\ true_label' = FilterLabels(ArgmaxRow(logits), gold, label_list)
    /\ pc' = "filtered"
    /\ UNCHANGED <<error, vocabVars, return_entity_level_metrics, n_filtered, results,
                   final_results, notMetrics>>

\* The comprehensions of lines 689-696 go to the next example.
NextFiltered ==
    /\ pc = "filtered"
    /\ n_filtered' = n_filtered + 1
    /\ prediction' = <<>>
    /\ labels_row' = <<>>
    /\ true_prediction' = <<>>
    /\ true_label' = <<>>
    /\ pc' = "filter"
    /\ UNCHANGED <<error, vocabVars, return_entity_level_metrics, results, final_results,
                   notMetrics>>

\* Line 697: the scorer is run on the filtered lists.
ScoreMetrics ==
    /\ pc = "filter"
    /\ n_filtered >= 1
    /\ results' \in ScorerResults
    /\ pc' = "scored"
    /\ UNCHANGED <<error, vocabVars, return_entity_level_metrics, prediction, labels_row,
                   true_prediction, true_label, n_filtered, final_results, notMetrics>>

\* Lines 698-714.
ReturnMetrics ==
    /\ pc = "scored"
    /\ final_results' = ReturnedMetrics(results, return_entity_level_metrics)
    /\ pc' = "metrics_returned"
    /\ UNCHANGED <<error, vocabVars, return_entity_level_metrics, prediction, labels_row,
                   true_prediction, true_label, n_filtered, results, notMetrics>>

InitMetrics ==
    /\ pc = "filter"
    /\ error = "none"
    /\ classlabel \in BOOLEAN
    /\ IF classlabel
       THEN /\ label_list = ClassLabelNames
            /\ label_to_id = [i \in 0..(Len(ClassLabelNames) - 1) |-> i]
       ELSE \E col \in AlignTrainColumns :
            /\ label_list = get_label_list(col, TagOrder)
            /\ label_to_id = ScanLabelToId(get_label_list(col, TagOrder))
    /\ AlignIdle
    /\ return_entity_level_metrics \in BOOLEAN
    /\ prediction = <<>>
    /\ labels_row = <<>>
    /\ true_prediction = <<>>
    /\ true_label = <<>>
    /\ n_filtered = 0
    /\ results = <<>>
    /\ final_results = <<>>
    /\ ScanIdle
    /\ MainIdle

NextMetrics == FilterExample \/ NextFiltered \/ ScoreMetrics \/ ReturnMetrics

SpecMetrics == InitMetrics /\ [][NextMetrics]_vars

\* ------------------------------------------------------------- main (238-796)
Splits == {"train", "validation", "test"}
\* A file argument is held as path.split("."), the parts between its dots;
\* NoFile is None.
NoFile == <<>>
Extension(file) == file[Len(file)]
ValidExtension(file) == Extension(file) \in {"csv", "json"}

\* str.lower() (235) on the task names used here.
Lower(s) == CASE s = "NER" -> "ner" [] s = "POS" -> "pos" [] OTHER -> s

\* Mutant of NoDatasetSource: one missing source is enough.
AnySourceMissing(d) ==
    d.dataset_name = "None" \/ d.train_file = NoFile \/ d.validation_file = NoFile

\* Line 226.
NoDatasetSource(d) ==
    d.dataset_name = "None" /\ d.train_file = NoFile /\ d.validation_file = NoFile

\* DataTrainingArguments.__post_init__ (225-234): the exception it raises, or "none".
PostInitError(d) ==
    IF NoDatasetSource(d)
    THEN "ValueError: Need either a dataset name or a training/validation file."
    ELSE IF d.train_file # NoFile /\ ~ValidExtension(d.train_file)
    THEN "AssertionError: train_file should be a csv or a json file."
    ELSE IF d.validation_file # NoFile /\ ~ValidExtension(d.validation_file)
    THEN "AssertionError: validation_file should be a csv or a json file."
    ELSE "none"

Raise(e) == pc' = "raised" /\ error' = e

\* Lines 243-251: the arguments are parsed into the dataclasses.
ParseArgs ==
    /\ pc = "parse"
    /\ IF PostInitError(data_args) # "none"
       THEN /\ Raise(PostInitError(data_args))
            /\ UNCHANGED data_args
       ELSE /\ data_args' = [data_args EXCEPT !.task_name = Lower(@)]
            /\ pc' = "detect_checkpoint"
            /\ UNCHANGED error
    /\ UNCHANGED <<vocabVars, model_args, training_args, adapter_args, env, last_checkpoint,
                   raw_datasets, column_names, text_column_name, label_column_name, loaded,
                   embeddings, composerVars, active_adapters, tokenized, outputVars, config, trainer_built, checkpoint,
                   phases, notMain>>

\* get_last_checkpoint(output_dir) and os.listdir(output_dir) on the directory found.
GetLastCheckpoint(dir) == IF dir = "checkpoint" THEN "checkpoint-500" ELSE "None"
\* Mutant of DirNotEmpty: an existing directory always counts as non-empty.
DirAlwaysNotEmpty(dir) == dir # "absent"

DirNotEmpty(dir) == dir \in {"files", "checkpoint"}

\* Lines 274-287.
DetectCheckpoint ==
    /\ pc = "detect_checkpoint"
    /\ IF /\ env.output_dir # "absent"
          /\ training_args.do_train
          /\ ~training_args.overwrite_output_dir
       THEN /\ last_checkpoint' = GetLastCheckpoint(env.output_dir)
            /\ IF GetLastCheckpoint(env.output_dir) = "None" /\ DirNotEmpty(env.output_dir)
               THEN Raise("ValueError: Output directory already exists and is not empty.")
               ELSE pc' = "load_dataset" /\ UNCHANGED error
       ELSE /\ last_checkpoint' = "None"
            /\ pc' = "load_dataset"
            /\ UNCHANGED error
    /\ UNCHANGED <<vocabVars, argVars, raw_datasets, column_names, text_column_name,
                   label_column_name, loaded, embeddings, composerVars, active_adapters, tokenized, outputVars, config,
                   trainer_built, checkpoint, phases, notMain>>

\* data_files (308-314): the splits a file is given for.
DataFiles(d) ==
    {s \in Splits : \/ s = "train" /\ d.train_file # NoFile
                    \/ s = "validation" /\ d.validation_file # NoFile
                    \/ s = "test" /\ d.test_file # NoFile}

\* Lines 302-316.
LoadDataset ==
    /\ pc = "load_dataset"
    /\ IF data_args.dataset_name # "None"
       THEN /\ raw_datasets' = [s \in env.hub_splits |-> env.splits[s]]
            /\ pc' = "resolve_columns"
            /\ UNCHANGED error
       ELSE IF data_args.train_file = NoFile
       THEN /\ Raise("AttributeError: 'NoneType' object has no attribute 'split'")
            /\ UNCHANGED raw_datasets
       ELSE /\ raw_datasets' = [s \in DataFiles(data_args) |-> env.splits[s]]
            /\ pc' = "resolve_columns"
            /\ UNCHANGED error
    /\ UNCHANGED <<vocabVars, argVars, last_checkpoint, column_names, text_column_name,
                   label_column_name, loaded, embeddings, composerVars, active_adapters, tokenized, outputVars, config,
                   trainer_built, checkpoint, phases, notMain>>

\* The split whose columns and features are inspected (320-325).
InspectedSplit(t) == IF t.do_train THEN "train" ELSE "validation"

\* Mutant of TextColumn: the conventional name is tried before the override.
TextColumnConventionFirst(d, cols) ==
    IF "tokens" \in Range(cols) THEN "tokens"
    ELSE IF d.text_column_name # "None" THEN d.text_column_name
    ELSE cols[1]

\* Lines 327-332.
TextColumn(d, cols) ==
    IF d.text_column_name # "None" THEN d.text_column_name
    ELSE IF "tokens" \in Range(cols) THEN "tokens"
    ELSE cols[1]

\* Lines 334-339.
LabelColumn(d, cols) ==
    IF d.label_column_name # "None" THEN d.label_column_name
    ELSE IF (d.task_name \o "_tags") \in Range(cols) THEN d.task_name \o "_tags"
    ELSE cols[2]

\* column_names[1] (339) is read and the split has a single column.
LabelIndexError(d, cols) ==
    /\ d.label_column_name = "None"
    /\ (d.task_name \o "_tags") \notin Range(cols)
    /\ Len(cols) < 2

\* Lines 320-339.
ResolveColumns ==
    /\ pc = "resolve_columns"
    /\ IF InspectedSplit(training_args) \notin DOMAIN raw_datasets
       THEN /\ Raise("KeyError: '" \o InspectedSplit(training_args) \o "'")
            /\ UNCHANGED <<column_names, text_column_name, label_column_name>>
       ELSE LET cols == raw_datasets[InspectedSplit(training_args)].column_names IN
            /\ column_names' = cols
            /\ text_column_name' = TextColumn(data_args, cols)
            /\ IF LabelIndexError(data_args, cols)
               THEN /\ Raise("IndexError: list index out of range")
                    /\ UNCHANGED label_column_name
               ELSE /\ label_column_name' = LabelColumn(data_args, cols)
                    /\ pc' = "label_list"
                    /\ UNCHANGED error
    /\ UNCHANGED <<vocabVars, argVars, last_checkpoint, raw_datasets, loaded, embeddings, composerVars,
                   active_adapters, tokenized, outputVars, config, trainer_built, checkpoint, phases, notMain>>

\* Lines 351-358.
BuildLabelList ==
    /\ pc = "label_list"
    /\ IF label_column_name \notin Range(column_names)
       THEN /\ Raise("KeyError: '" \o label_column_name \o "'")
            /\ UNCHANGED vocabVars
       ELSE IF raw_datasets[InspectedSplit(training_args)].classlabel
       THEN /\ label_list' = ClassLabelNames
            /\ label_to_id' = [i \in 0..(Len(ClassLabelNames) - 1) |-> i]
            /\ pc' = "load_config"
            /\ UNCHANGED error
       ELSE IF "train" \notin DOMAIN raw_datasets
       THEN /\ Raise("KeyError: 'train'")
            /\ UNCHANGED vocabVars
       ELSE IF label_column_name \notin Range(raw_datasets["train"].column_names)
       THEN /\ Raise("KeyError: '" \o label_column_name \o "'")
            /\ UNCHANGED vocabVars
       ELSE /\ \E hash_order \in HashOrders :
                 /\ label_list' = get_label_list(raw_datasets["train"].label_rows, hash_order)
                 /\ label_to_id' = ScanLabelToId(
                        get_label_list(raw_datasets["train"].label_rows, hash_order))
            /\ pc' = "load_config"
            /\ UNCHANGED error
    /\ UNCHANGED <<argVars, last_checkpoint, raw_datasets, column_names, text_column_name,
                   label_column_name, loaded, embeddings, composerVars, active_adapters, tokenized, outputVars, config,
                   trainer_built, checkpoint, phases, notMain>>

\* What the loading steps leave alone.
loadFrame == <<error, vocabVars, argVars, last_checkpoint, raw_datasets, column_names,
               text_column_name, label_column_name, embeddings, active_adapters,
               tokenized, outputVars, trainer_built, checkpoint, phases, notMain>>

\* A key or value of a Python dictionary that is a str, or an int.
PyStr(s) == [type |-> "str", str |-> s, int |-> 0]
PyInt(i) == [type |-> "int", str |-> "", int |-> i]

\* label_to_id.items(): the keys are indices when the vocabulary comes from a
\* ClassLabel feature (354) and tags when it comes from the scan (357).
LabelItems(l2id, is_classlabel) ==
    {<<IF is_classlabel THEN PyInt(k) ELSE PyStr(k), l2id[k]>> : k \in DOMAIN l2id}

\* {i: l for l, i in label_to_id.items()} (370).
Id2Label(items) == {<<item[2], item[1]>> : item \in items}

\* Lines 366-375.
LoadConfig ==
    /\ pc = "load_config"
    /\ loaded' = Append(loaded, "AutoConfig")
    /\ config' =
         LET items == LabelItems(label_to_id,
                                 raw_datasets[InspectedSplit(training_args)].classlabel)
         IN [num_labels |-> Len(label_list), label2id |-> items,
             id2label |-> Id2Label(items)]
    /\ pc' = "load_tokenizer"
    /\ UNCHANGED <<loadFrame, composerVars>>

\* Lines 377-410.
LoadTokenizer ==
    /\ pc = "load_tokenizer"
    /\ loaded' = Append(loaded, "AutoTokenizer")
    /\ pc' = "load_model"
    /\ UNCHANGED <<loadFrame, composerVars, config>>

\* str.__contains__: sub in s.
Contains(s, sub) ==
    \E i \in 1..(Len(s) - Len(sub) + 1) : SubSeq(s, i, i + Len(sub) - 1) = sub

\* model.bert.named_parameters() of the model as loaded: every parameter
\* requires a gradient.
BertParameters ==
    {"embeddings.word_embeddings.weight", "embeddings.LayerNorm.weight",
     "encoder.layer.0.attention.self.query.weight", "pooler.dense.weight"}

\* Lines 412-419.
LoadModel ==
    /\ pc = "load_model"
    /\ loaded' = Append(loaded, "AutoModelForTokenClassification")
    /\ requires_grad' = [p \in BertParameters |-> TRUE]
    /\ pc' = "composer"
    /\ UNCHANGED <<loadFrame, config, embedding_sources, tokenizer_sources, substitutions>>

\* model_args.model_name_or_path, model_name_or_path_2 .. model_name_or_path_6.
ModelPath(m, k) ==
    CASE k = 1 -> m.model_name_or_path
      [] k = 2 -> m.model_name_or_path_2
      [] k = 3 -> m.model_name_or_path_3
      [] k = 4 -> m.model_name_or_path_4
      [] k = 5 -> m.model_name_or_path_5
      [] k = 6 -> m.model_name_or_path_6

\* Mutant of EmbeddingSource: an unset optional source is loaded all the same.
EmbeddingSourceLoaded(m, k) == "BertEmbed:" \o ModelPath(m, k)

\* Lines 421-426, 455-460: embedding_k.
EmbeddingSource(m, k) ==
    IF k >= 3 /\ ModelPath(m, k) = "None" THEN "None"
    ELSE "BertEmbed:" \o ModelPath(m, k)

FinancialTokenizer == "./cache/transformer/tokenizer/background-x/bert-base-uncased/financial"

\* Lines 462-483: tokenizer_k.
TokenizerSource(m, k) ==
    IF k >= 3 /\ ModelPath(m, k) = "None" THEN "None"
    ELSE IF k = 2 /\ Contains(ModelPath(m, 2), "financial/BERT_MLM_EMB_ONLY_TOKENIZER")
    THEN "AutoTokenizer:" \o FinancialTokenizer
    ELSE "AutoTokenizer:" \o ModelPath(m, k)

SourceDigit == <<"1", "2", "3", "4", "5", "6">>

\* The parameters of the composite module: the table of every source that is
\* present and, under the attention policy, the combination weights.
CompositeParameters(sources, use_attention) ==
    {"embeddings.embedding_" \o SourceDigit[k] \o ".word_embeddings.weight" :
        k \in {j \in 1..6 : sources[j] # "None"}}
    \cup (IF use_attention THEN {"embeddings.attention.weight"} ELSE {})

\* model.bert.named_parameters() once model.bert.embeddings is the composite
\* module (433, 491): the native embedding parameters are gone.
SubstitutedParameters(grad, sources, use_attention, sources_trainable) ==
    [p \in {q \in DOMAIN grad : ~Contains(q, "embeddings.")}
           \cup CompositeParameters(sources, use_attention) |->
        IF p \in DOMAIN grad /\ ~Contains(p, "embeddings.") THEN grad[p]
        ELSE IF Contains(p, "embedding_") THEN sources_trainable
        ELSE TRUE]

\* Mutant of FreezeByName: every parameter is frozen, whatever its name.
FreezeAll(grad) == [p \in DOMAIN grad |-> FALSE]

\* The freeze loop (447-449, 513-515).
FreezeByName(grad) ==
    [p \in DOMAIN grad |-> IF Contains(p, "embedding_") THEN FALSE ELSE grad[p]]

\* Mutant of ComposerVariant: the domain flag is tested first.
ComposerVariantDomainFirst(m) ==
    IF m.use_domain_metaemb THEN "BertMetaDomainEmbed"
    ELSE IF m.use_metaemb THEN "BertMetaEmbed"
    ELSE "none"

\* Lines 420, 454: the composite installed, "none" when neither flag is set.
ComposerVariant(m) ==
    IF m.use_metaemb THEN "BertMetaEmbed"
    ELSE IF m.use_domain_metaemb THEN "BertMetaDomainEmbed"
    ELSE "none"

\* Lines 420-518.
SetupComposer ==
    /\ pc = "composer"
    /\ IF ComposerVariant(model_args) = "none"
       THEN UNCHANGED <<embeddings, composerVars>>
       ELSE /\ embedding_sources' = [k \in 1..6 |-> EmbeddingSource(model_args, k)]
            /\ tokenizer_sources' =
                 IF ComposerVariant(model_args) = "BertMetaDomainEmbed"
                 THEN [k \in 1..6 |-> TokenizerSource(model_args, k)]
                 ELSE <<>>
            /\ embeddings' = ComposerVariant(model_args)
            /\ substitutions' = substitutions + 1
            /\ requires_grad' =
                 FreezeByName(SubstitutedParameters(
                     requires_grad, [k \in 1..6 |-> EmbeddingSource(model_args, k)],
                     model_args.use_attention, env.sources_trainable))
    /\ pc' = "adapters"
    /\ UNCHANGED <<error, vocabVars, argVars, last_checkpoint, raw_datasets, column_names,
                   text_column_name, label_column_name, loaded, active_adapters, tokenized, outputVars, config,
                   trainer_built, checkpoint, phases, notMain>>

\* Line 571: an adapter is to be loaded and adapters are not trained.
LoadWithoutTraining(a) ==
    ~a.train_adapter /\ (a.load_adapter # "None" \/ a.load_lang_adapter # "None")

\* The parameters model.load_adapter / model.add_adapter add to model.bert.
AdapterParameters(name) ==
    {"encoder.layer.0.output.adapters." \o name \o ".adapter_down.0.weight",
     "encoder.layer.0.output.adapters." \o name \o ".adapter_up.weight"}

\* Mutant of TrainAdapter: every weight is left trainable.
TrainAdapterUnfrozen(grad, task_name) == [p \in DOMAIN grad |-> TRUE]

\* model.train_adapter([task_name]) (564): all weights of the model are frozen
\* except those of this adapter.
TrainAdapter(grad, task_name) ==
    [p \in DOMAIN grad |-> p \in AdapterParameters(task_name)]

\* Lines 521-575.
SetupAdapters ==
    /\ pc = "adapters"
    /\ IF adapter_args.train_adapter
       THEN LET task_name == IF data_args.dataset_name # "None"
                             THEN data_args.dataset_name ELSE "ner"
                added == AdapterParameters(task_name) \cup
                         (IF adapter_args.load_lang_adapter # "None"
                          THEN AdapterParameters(adapter_args.language) ELSE {})
                with_adapters == [p \in DOMAIN requires_grad \cup added |->
                                    IF p \in DOMAIN requires_grad THEN requires_grad[p]
                                    ELSE TRUE]
            IN /\ requires_grad' = TrainAdapter(with_adapters, task_name)
               /\ active_adapters' =
                    IF adapter_args.load_lang_adapter # "None"
                    THEN <<adapter_args.language, task_name>>
                    ELSE <<task_name>>
               /\ pc' = "check_tokenizer"
               /\ UNCHANGED error
       ELSE IF LoadWithoutTraining(adapter_args)
       THEN /\ Raise("ValueError: Adapters can only be loaded in adapters training mode.")
            /\ UNCHANGED <<active_adapters, requires_grad>>
       ELSE /\ pc' = "check_tokenizer"
            /\ UNCHANGED <<error, active_adapters, requires_grad>>
    /\ UNCHANGED <<vocabVars, argVars, last_checkpoint, raw_datasets, column_names,
                   text_column_name, label_column_name, loaded, embeddings,
                   embedding_sources, tokenizer_sources, substitutions, tokenized, outputVars, config,
                   trainer_built, checkpoint, phases, notMain>>

\* Lines 578-584.
CheckTokenizer ==
    /\ pc = "check_tokenizer"
    /\ IF ~env.tokenizer_fast
       THEN Raise("ValueError: This example script only works for models that have a fast tokenizer.")
       ELSE pc' = "map_train" /\ UNCHANGED error
    /\ UNCHANGED <<vocabVars, mainVars, notMain>>

\* What the dataset steps leave alone.
mapFrame == <<vocabVars, argVars, last_checkpoint, raw_datasets, column_names,
              text_column_name, label_column_name, loaded, embeddings, composerVars, active_adapters,
              trainer_built, outputVars, config, checkpoint, phases, notMain>>

\* One of the blocks 633-646, 648-661, 663-676: the phase is requested or not,
\* and its split is there or not.
MapSplit(requested, split, flag, next) ==
    IF ~requested
    THEN pc' = next /\ UNCHANGED <<error, tokenized>>
    ELSE IF split \notin DOMAIN raw_datasets
    THEN /\ Raise("ValueError: --" \o flag \o " requires a " \o split \o " dataset")
         /\ UNCHANGED tokenized
    ELSE /\ tokenized' = tokenized \cup {split}
         /\ pc' = next
         /\ UNCHANGED error

\* Lines 633-646.
MapTrain ==
    /\ pc = "map_train"
    /\ MapSplit(training_args.do_train, "train", "do_train", "map_eval")
    /\ UNCHANGED mapFrame

\* Lines 648-661.
MapEval ==
    /\ pc = "map_eval"
    /\ MapSplit(training_args.do_eval, "validation", "do_eval", "map_predict")
    /\ UNCHANGED mapFrame

\* Lines 663-676.
MapPredict ==
    /\ pc = "map_predict"
    /\ MapSplit(training_args.do_predict, "test", "do_predict", "trainer")
    /\ UNCHANGED mapFrame

\* Lines 678-726.
BuildTrainer ==
    /\ pc = "trainer"
    /\ trainer_built' = TRUE
    /\ pc' = "train"
    /\ UNCHANGED <<error, vocabVars, argVars, last_checkpoint, raw_datasets, column_names,
                   text_column_name, label_column_name, loaded, embeddings, composerVars,
                   active_adapters, tokenized, outputVars, config, checkpoint, phases, notMain>>

\* What the trainer phases leave alone.
phaseFrame == <<error, config, vocabVars, argVars, last_checkpoint, raw_datasets, column_names,
                text_column_name, label_column_name, loaded, embeddings, composerVars, active_adapters,
                tokenized, trainer_built, notMain>>

\* Mutant of SelectedCheckpoint: a detected checkpoint is preferred.
SelectedCheckpointDetectedFirst(t, last) ==
    IF last # "None" THEN last
    ELSE IF t.resume_from_checkpoint # "None" THEN t.resume_from_checkpoint
    ELSE "None"

\* Lines 730-734.
SelectedCheckpoint(t, last) ==
    IF t.resume_from_checkpoint # "None" THEN t.resume_from_checkpoint
    ELSE IF last # "None" THEN last
    ELSE "None"

\* Lines 728-746.
Train ==
    /\ pc = "train"
    /\ IF training_args.do_train
       THEN /\ checkpoint' = SelectedCheckpoint(training_args, last_checkpoint)
            /\ phases' = Append(phases, "train")
            /\ output_steps' = output_steps \o <<"save_model", "save_metrics:train",
                                                 "save_state">>
       ELSE UNCHANGED <<checkpoint, phases, output_steps>>
    /\ pc' = "evaluate"
    /\ UNCHANGED <<phaseFrame, true_predictions, predictions_file>>

\* Lines 748-758.
Evaluate ==
    /\ pc = "evaluate"
    /\ IF training_args.do_eval
       THEN /\ phases' = Append(phases, "eval")
            /\ output_steps' = Append(output_steps, "save_metrics:eval")
       ELSE UNCHANGED <<phases, output_steps>>
    /\ pc' = "predict"
    /\ UNCHANGED <<checkpoint, phaseFrame, true_predictions, predictions_file>>

\* Mutant of TruePredictions: no position is removed.
TruePredictionsUnfiltered(predictions, labels, ll) ==
    [i \in 1..Min(Len(predictions), Len(labels)) |->
        [j \in 1..Min(Len(predictions[i]), Len(labels[i])) |-> ll[predictions[i][j] + 1]]]

\* Lines 767-770.
TruePredictions(predictions, labels, ll) ==
    [i \in 1..Min(Len(predictions), Len(labels)) |->
        FilterPredictions(predictions[i], labels[i], ll)]

\* " ".join(prediction) (781).
RECURSIVE JoinSpace(_)
JoinSpace(strs) ==
    IF strs = <<>> THEN ""
    ELSE IF Len(strs) = 1 THEN strs[1]
    ELSE strs[1] \o " " \o JoinSpace(Tail(strs))

\* Lines 760-781.
Predict ==
    /\ pc = "predict"
    /\ IF training_args.do_predict
       THEN LET predictions == [i \in 1..Len(env.predict_output.predictions) |->
                                  ArgmaxRow(env.predict_output.predictions[i])]
                written == TruePredictions(predictions, env.predict_output.label_ids,
                                           label_list)
            IN /\ phases' = Append(phases, "predict")
               /\ true_predictions' = written
               /\ IF env.world_process_zero
                  THEN /\ output_steps' = output_steps \o <<"save_metrics:predict",
                                                            "write:predictions.txt">>
                       /\ predictions_file' =
                            [i \in 1..Len(written) |-> JoinSpace(written[i])]
                  ELSE /\ output_steps' = Append(output_steps, "save_metrics:predict")
                       /\ UNCHANGED predictions_file
       ELSE UNCHANGED <<phases, outputVars>>
    /\ pc' = "done"
    /\ UNCHANGED <<checkpoint, phaseFrame>>

NextMain ==
    \/ ParseArgs \/ DetectCheckpoint \/ LoadDataset \/ ResolveColumns \/ BuildLabelList
    \/ LoadConfig \/ LoadTokenizer \/ LoadModel \/ SetupComposer \/ SetupAdapters
    \/ CheckTokenizer \/ MapTrain \/ MapEval \/ MapPredict \/ BuildTrainer
    \/ Train \/ Evaluate \/ Predict

\* The state main starts from, the arguments and the surroundings apart.
MainStart ==
    /\ pc = "parse"
    /\ error = "none"
    /\ label_list = <<>>
    /\ label_to_id = <<>>
    /\ last_checkpoint = "None"
    /\ raw_datasets = <<>>
    /\ column_names = <<>>
    /\ text_column_name = "None"
    /\ label_column_name = "None"
    /\ loaded = <<>>
    /\ embeddings = "BertEmbeddings"
    /\ embedding_sources = <<>>
    /\ tokenizer_sources = <<>>
    /\ requires_grad = <<>>
    /\ substitutions = 0
    /\ active_adapters = <<>>
    /\ tokenized = {}
    /\ config = NoConfig
    /\ true_predictions = <<>>
    /\ output_steps = <<>>
    /\ predictions_file = <<>>
    /\ trainer_built = FALSE
    /\ checkpoint = "None"
    /\ phases = <<>>
    /\ classlabel = FALSE
    /\ AlignIdle
    /\ MetricsIdle
    /\ ScanIdle

\* trainer.predict (764): per example and position, the logits over the three
\* labels and the gold label id.
OneHot(hot) == [i \in 1..3 |-> IF i = hot + 1 THEN 1 ELSE 0]
DefaultPredictOutput ==
    [predictions |-> <<<<OneHot(2), OneHot(0), OneHot(1), OneHot(2)>>>>,
     label_ids |-> <<<<IgnoreIndex, 0, 1, IgnoreIndex>>>>]

\* Column layouts of a split.
ColumnLayouts ==
    {<<"id", "tokens", "pos_tags", "ner_tags">>, <<"words", "labels">>,
     <<"ner_tags", "tokens">>, <<"sentence">>, <<"words", "tokens", "labels", "ner_tags">>}
ConllColumns == <<"id", "tokens", "pos_tags", "ner_tags">>
SplitOf(cols, is_classlabel) ==
    [column_names |-> cols, classlabel |-> is_classlabel, label_rows |-> <<ScenarioTags>>]

DefaultModelArgs ==
    [use_metaemb |-> FALSE, use_domain_metaemb |-> FALSE, use_attention |-> FALSE,
     model_name_or_path |-> "bert-base-uncased", model_name_or_path_2 |-> "None",
     model_name_or_path_3 |-> "None", model_name_or_path_4 |-> "None",
     model_name_or_path_5 |-> "None", model_name_or_path_6 |-> "None"]
DefaultAdapterArgs ==
    [train_adapter |-> FALSE, load_adapter |-> "None", load_lang_adapter |-> "None",
     language |-> "None"]

\* Runs on a hub dataset with all three splits: the columns of the train and of
\* the validation split, the overrides and the task name vary.
InitColumns ==
    /\ MainStart
    /\ model_args = DefaultModelArgs
    /\ adapter_args = DefaultAdapterArgs
    /\ \E text \in {"None", "words"}, lab \in {"None", "labels"},
          task \in {"ner", "NER", "pos"} :
         data_args = [dataset_name |-> "conll2003", train_file |-> NoFile,
                      validation_file |-> NoFile, test_file |-> NoFile,
                      text_column_name |-> text, label_column_name |-> lab,
                      task_name |-> task]
    /\ \E train \in BOOLEAN :
         training_args = [do_train |-> train, do_eval |-> TRUE, do_predict |-> TRUE,
                          overwrite_output_dir |-> FALSE, resume_from_checkpoint |-> "None"]
    /\ \E tcols \in ColumnLayouts, vcols \in ColumnLayouts, is_classlabel \in BOOLEAN :
         env = [hub_splits |-> Splits,
                splits |-> [s \in Splits |->
                              SplitOf(IF s = "train" THEN tcols ELSE vcols, is_classlabel)],
                output_dir |-> "absent", tokenizer_fast |-> TRUE, sources_trainable |-> TRUE,
                world_process_zero |-> TRUE, predict_output |-> DefaultPredictOutput]

SpecColumns == InitColumns /\ [][NextMain]_vars

TrainFiles == {NoFile, <<"train", "csv">>, <<"data", "train", "json">>, <<"train", "txt">>}
OtherFiles == {NoFile, <<"data", "csv">>, <<"data", "txt">>}

\* Runs whose dataset source, requested phases and adapter options vary, on
\* splits with the CoNLL columns.
InitConfig ==
    /\ MainStart
    /\ model_args = DefaultModelArgs
    /\ \E train \in BOOLEAN, load \in {"None", "ner/conll2003"}, lang \in {"None", "en/wiki"} :
         adapter_args = [train_adapter |-> train, load_adapter |-> load,
                         load_lang_adapter |-> lang,
                         language |-> IF lang = "None" THEN "None" ELSE "en"]
    /\ \E name \in {"None", "conll2003"}, tf \in TrainFiles, vf \in OtherFiles,
          pf \in OtherFiles :
         data_args = [dataset_name |-> name, train_file |-> tf, validation_file |-> vf,
                      test_file |-> pf, text_column_name |-> "None",
                      label_column_name |-> "None", task_name |-> "ner"]
    /\ \E train \in BOOLEAN, eval \in BOOLEAN, predict \in BOOLEAN :
         training_args = [do_train |-> train, do_eval |-> eval, do_predict |-> predict,
                          overwrite_output_dir |-> FALSE, resume_from_checkpoint |-> "None"]
    /\ \E hub \in SUBSET Splits, is_classlabel \in BOOLEAN :
         /\ data_args.dataset_name = "None" => hub = {}
         /\ env = [hub_splits |-> hub,
                   splits |-> [s \in Splits |-> SplitOf(ConllColumns, is_classlabel)],
                   output_dir |-> "absent", tokenizer_fast |-> TRUE, sources_trainable |-> TRUE,
                world_process_zero |-> TRUE, predict_output |-> DefaultPredictOutput]

SpecConfig == InitConfig /\ [][NextMain]_vars

\* Runs on a hub dataset with all three splits: the state of the output
\* directory, the requested phases and the checkpoint options vary.
InitCheckpoint ==
    /\ MainStart
    /\ model_args = DefaultModelArgs
    /\ adapter_args = DefaultAdapterArgs
    /\ data_args = [dataset_name |-> "conll2003", train_file |-> NoFile,
                    validation_file |-> NoFile, test_file |-> NoFile,
                    text_column_name |-> "None", label_column_name |-> "None",
                    task_name |-> "ner"]
    /\ \E train \in BOOLEAN, eval \in BOOLEAN, predict \in BOOLEAN,
          overwrite \in BOOLEAN, resume \in {"None", "checkpoint-100"} :
         training_args = [do_train |-> train, do_eval |-> eval, do_predict |-> predict,
                          overwrite_output_dir |-> overwrite,
                          resume_from_checkpoint |-> resume]
    /\ \E dir \in {"absent", "empty", "files", "checkpoint"} :
         env = [hub_splits |-> Splits,
                splits |-> [s \in Splits |-> SplitOf(ConllColumns, TRUE)],
                output_dir |-> dir, tokenizer_fast |-> TRUE, sources_trainable |-> TRUE,
                world_process_zero |-> TRUE, predict_output |-> DefaultPredictOutput]

SpecCheckpoint == InitCheckpoint /\ [][NextMain]_vars

OptionalPaths == {"None", "bert-mlm-emb-other"}
SecondPaths == {"bert-mlm-emb", "financial/BERT_MLM_EMB_ONLY_TOKENIZER/bert"}

\* Runs on a hub dataset with all three splits: the composer flags, the
\* configured sources, the combination policy and the adapter options vary.
InitComposer ==
    /\ MainStart
    /\ \E meta \in BOOLEAN, domain \in BOOLEAN, attention \in BOOLEAN,
          p2 \in SecondPaths, p3 \in OptionalPaths, p4 \in OptionalPaths,
          p5 \in OptionalPaths, p6 \in OptionalPaths :
         model_args = [use_metaemb |-> meta, use_domain_metaemb |-> domain,
                       use_attention |-> attention,
                       model_name_or_path |-> "bert-base-uncased",
                       model_name_or_path_2 |-> p2, model_name_or_path_3 |-> p3,
                       model_name_or_path_4 |-> p4, model_name_or_path_5 |-> p5,
                       model_name_or_path_6 |-> p6]
    /\ \E train \in BOOLEAN, lang \in {"None", "en/wiki"} :
         /\ ~train => lang = "None"
         /\ adapter_args = [train_adapter |-> train, load_adapter |-> "None",
                            load_lang_adapter |-> lang,
                            language |-> IF lang = "None" THEN "None" ELSE "en"]
    /\ data_args = [dataset_name |-> "conll2003", train_file |-> NoFile,
                    validation_file |-> NoFile, test_file |-> NoFile,
                    text_column_name |-> "None", label_column_name |-> "None",
                    task_name |-> "ner"]
    /\ training_args = [do_train |-> TRUE, do_eval |-> TRUE, do_predict |-> TRUE,
                        overwrite_output_dir |-> FALSE, resume_from_checkpoint |-> "None"]
    /\ \E trainable \in BOOLEAN :
         env = [hub_splits |-> Splits,
                splits |-> [s \in Splits |-> SplitOf(ConllColumns, TRUE)],
                output_dir |-> "absent", tokenizer_fast |-> TRUE,
                sources_trainable |-> trainable,
                world_process_zero |-> TRUE, predict_output |-> DefaultPredictOutput]

SpecComposer == InitComposer /\ [][NextMain]_vars

\* What trainer.predict can return for one example of n positions: the
\* predicted label moves along the positions, and any positions carry the
\* gold label -100.
PredictRows ==
    UNION {{[predictions |-> [i \in 1..n |-> OneHot((i + shift) % 3)],
             label_ids |-> [i \in 1..n |-> IF ignored[i] THEN IgnoreIndex ELSE i % 3]] :
              shift \in 0..1, ignored \in [1..n -> BOOLEAN]} : n \in 1..MaxPositions}

\* Runs on a hub dataset with all three splits: the output of trainer.predict
\* and the rank of the process vary.
InitPredict ==
    /\ MainStart
    /\ model_args = DefaultModelArgs
    /\ adapter_args = DefaultAdapterArgs
    /\ data_args = [dataset_name |-> "conll2003", train_file |-> NoFile,
                    validation_file |-> NoFile, test_file |-> NoFile,
                    text_column_name |-> "None", label_column_name |-> "None",
                    task_name |-> "ner"]
    /\ \E predict \in BOOLEAN :
         training_args = [do_train |-> TRUE, do_eval |-> TRUE, do_predict |-> predict,
                          overwrite_output_dir |-> FALSE, resume_from_checkpoint |-> "None"]
    /\ \E rows \in SeqsUpTo(PredictRows, MaxBatch), zero \in BOOLEAN :
         /\ ~training_args.do_predict => (Len(rows) = 1 /\ zero)
         /\ env = [hub_splits |-> Splits,
                   splits |-> [s \in Splits |-> SplitOf(ConllColumns, TRUE)],
                   output_dir |-> "absent", tokenizer_fast |-> TRUE,
                   sources_trainable |-> TRUE, world_process_zero |-> zero,
                   predict_output |->
                       [predictions |-> [i \in 1..Len(rows) |-> rows[i].predictions],
                        label_ids |-> [i \in 1..Len(rows) |-> rows[i].label_ids]]]

SpecPredict == InitPredict /\ [][NextMain]_vars

\* The tag column of a train split of one to MaxTrainExamples examples.
VocabColumns == SeqsUpTo(VocabRows, MaxTrainExamples)

\* Runs on a hub dataset with all three splits: the tags of the train split,
\* the kind of the tag column and the adapter training vary; the test split is
\* empty.
InitVocabulary ==
    /\ MainStart
    /\ model_args = DefaultModelArgs
    /\ \E train \in BOOLEAN :
         adapter_args = [train_adapter |-> train, load_adapter |-> "None",
                         load_lang_adapter |-> "None", language |-> "None"]
    /\ data_args = [dataset_name |-> "conll2003", train_file |-> NoFile,
                    validation_file |-> NoFile, test_file |-> NoFile,
                    text_column_name |-> "None", label_column_name |-> "None",
                    task_name |-> "ner"]
    /\ training_args = [do_train |-> TRUE, do_eval |-> TRUE, do_predict |-> TRUE,
                        overwrite_output_dir |-> FALSE, resume_from_checkpoint |-> "None"]
    /\ \E rows \in VocabColumns, is_classlabel \in BOOLEAN :
         env = [hub_splits |-> Splits,
                splits |-> [s \in Splits |->
                              [column_names |-> ConllColumns, classlabel |-> is_classlabel,
                               label_rows |-> rows]],
                output_dir |-> "absent", tokenizer_fast |-> TRUE,
                sources_trainable |-> TRUE, world_process_zero |-> TRUE,
                predict_output |-> [predictions |-> <<>>, label_ids |-> <<>>]]

SpecVocabulary == InitVocabulary /\ [][NextMain]_vars

\* ------------------------------------------------------------------ claims
\* Position i repeats a word index that occurred earlier in word_ids.
Continuation(i) ==
    word_ids[i] # NoneIdx /\ \E j \in 1..(i - 1) : word_ids[j] = word_ids[i]
\* Position i is the first occurrence of its word index in word_ids.
FirstOccurrence(i) ==
    word_ids[i] # NoneIdx /\ \A j \in 1..(i - 1) : word_ids[j] # word_ids[i]
FirstPosition(i) == CHOOSE j \in 1..i : word_ids[j] = word_ids[i] /\ FirstOccurrence(j)

ScenarioWordIds == <<0, 1, 1, 2, 3, NoneIdx>>
ScenarioAligned ==
    /\ pc = "append"
    /\ ~classlabel
    /\ ~label_all_tokens
    /\ label = ScenarioTags
    /\ word_ids = ScenarioWordIds

\* C1: once an example is aligned, every continuation position of a repeated
\* word index holds -100 when label_all_tokens is False and the label of the
\* word's first position when it is True; tags [B-LOC, I-LOC, O, O] with word
\* indices [0,1,1,2,3,None] and label_all_tokens False give
\* [id(B-LOC), id(I-LOC), -100, id(O), id(O), -100].
C1_ContinuationLabels ==
    pc = "append" =>
      /\ \A i \in 1..Len(word_ids) :
            Continuation(i) =>
              label_ids[i] = IF label_all_tokens THEN label_ids[FirstPosition(i)]
                             ELSE IgnoreIndex
      /\ ScenarioAligned =>
            label_ids = <<label_to_id["B-LOC"], label_to_id["I-LOC"], IgnoreIndex,
                          label_to_id["O"], label_to_id["O"], IgnoreIndex>>

C1_Witness == ScenarioAligned /\ label_ids[3] = IgnoreIndex /\ label_ids[2] # IgnoreIndex

\* C2: once an example is aligned, every position that is the first occurrence
\* of its word index holds label_to_id[tag[word index]], under both values of
\* label_all_tokens.
C2_FirstOccurrenceLabels ==
    pc = "append" =>
      \A i \in 1..Len(word_ids) :
        FirstOccurrence(i) => label_ids[i] = label_to_id[label[word_ids[i] + 1]]

\* A later example of the batch whose first position continues the word index
\* the previous example ended with.
C2_Witness ==
    /\ pc = "append"
    /\ batch_index >= 1
    /\ ~label_all_tokens
    /\ Len(word_ids) >= 2
    /\ word_ids[1] = 0
    /\ word_ids[2] = 0
    /\ label_ids[1] = label_to_id[label[1]]

\* C3: once an example is aligned, every position whose word index is None
\* holds -100, whatever label_all_tokens and the preceding positions are.
C3_NoneIgnored ==
    pc = "append" =>
      \A i \in 1..Len(word_ids) : word_ids[i] = NoneIdx => label_ids[i] = IgnoreIndex

\* Padding after padding under label_all_tokens: a None position that follows
\* a None position.
C3_Witness ==
    /\ pc = "append"
    /\ label_all_tokens
    /\ \E i \in 2..Len(word_ids) :
         /\ word_ids[i] = NoneIdx
         /\ word_ids[i - 1] = NoneIdx
         /\ label_ids[i] = IgnoreIndex
    /\ \E i \in 1..Len(word_ids) : word_ids[i] # NoneIdx

\* C4: the label sequence of an aligned example is as long as its word-index
\* map and as its token ids, and the batch returns one label sequence per
\* example.
C4_OneLabelPerSubword ==
    /\ pc = "append" =>
         /\ Len(label_ids) = Len(word_ids)
         /\ Len(label_ids) = Len(input_ids)
    /\ pc = "returned" => labels_len = batch_index

\* A padded example with more sub-word positions than words.
C4_Witness ==
    /\ pc = "append"
    /\ pad_to_max_length
    /\ add_special_tokens
    /\ Len(label_ids) = MaxLength
    /\ Len(label_ids) > Len(label)


FourKeys == {"precision", "recall", "f1", "accuracy"}
\* The flattened keys <entity>_<metric> of the scorer's nested dictionaries.
PerEntityKeys ==
    {k \o "_" \o n : k \in {e \in DOMAIN results : results[e].is_dict},
                      n \in EntityMetricNames}

\* C5 as stated: compute_metrics returns exactly precision, recall, f1 and
\* accuracy without entity-level metrics, and those four keys plus the
\* per-entity keys <entity>_<metric> with them.
C5_Original ==
    pc = "metrics_returned" =>
      DOMAIN final_results =
        IF return_entity_level_metrics THEN FourKeys \cup PerEntityKeys ELSE FourKeys

\* C5 amended: without entity-level metrics compute_metrics returns exactly
\* precision, recall, f1 and accuracy, holding the scorer's overall_* scalars;
\* with them it returns the scorer's scalars under the scorer's own names
\* (overall_precision, overall_recall, overall_f1, overall_accuracy), none of
\* the four short names, plus the per-entity keys <entity>_<metric>.
C5_MetricKeys ==
    pc = "metrics_returned" =>
      IF return_entity_level_metrics
      THEN /\ DOMAIN final_results = OverallKeys \cup PerEntityKeys
           /\ FourKeys \cap DOMAIN final_results = {}
           /\ \A k \in OverallKeys : final_results[k] = results[k].value
           /\ \A e \in DOMAIN results : \A n \in EntityMetricNames :
                 results[e].is_dict =>
                   final_results[e \o "_" \o n] = results[e].items[n]
      ELSE /\ DOMAIN final_results = FourKeys
           /\ \A k \in FourKeys : final_results[k] = results["overall_" \o k].value

C5_Witness ==
    /\ pc = "metrics_returned"
    /\ return_entity_level_metrics
    /\ "LOC_precision" \in DOMAIN final_results
    /\ "overall_f1" \in DOMAIN final_results

\* The positions of the example whose gold label is not -100, in order.
Kept == {i \in 1..Len(labels_row) : labels_row[i] # IgnoreIndex}
KeptSeq ==
    CHOOSE K \in [1..Cardinality(Kept) -> Kept] :
        \A a, b \in 1..Cardinality(Kept) : a < b => K[a] < K[b]

\* C6: for every filtered example the two filtered lists hold exactly the
\* positions whose gold label is not -100, in their order, so they have the
\* same length; an example whose gold labels are all -100 gives two empty lists.
C6_FilterIgnored ==
    pc = "filtered" =>
      /\ Len(true_prediction) = Cardinality(Kept)
      /\ Len(true_label) = Cardinality(Kept)
      /\ \A j \in 1..Cardinality(Kept) :
            /\ true_label[j] = label_list[labels_row[KeptSeq[j]] + 1]
            /\ true_prediction[j] = label_list[prediction[KeptSeq[j]] + 1]
      /\ Kept = {} => true_prediction = <<>> /\ true_label = <<>>

\* An ignored position followed by a kept one whose prediction is wrong.
C6_Witness ==
    /\ pc = "filtered"
    /\ Len(labels_row) = 2
    /\ labels_row[1] = IgnoreIndex
    /\ labels_row[2] # IgnoreIndex
    /\ prediction[2] # labels_row[2]
    /\ Len(true_label) = 1
    /\ true_prediction # true_label

TagsOf(labels) == UNION {Range(labels[i]) : i \in 1..Len(labels)}

\* C7: after a run of the scan-based builder label_list holds exactly the tags
\* of the label sequences, each once, in ascending order, and label_to_id maps
\* each tag to its position; a further run on the same sequences, in any
\* order, gives the same label_list and label_to_id.
C7_VocabularyStable ==
    /\ scans >= 1 =>
         /\ Range(label_list) = TagsOf(train_labels)
         /\ \A i \in 1..(Len(label_list) - 1) : StrLess(label_list[i], label_list[i + 1])
         /\ DOMAIN label_to_id = Range(label_list)
         /\ \A i \in 1..Len(label_list) : label_to_id[label_list[i]] = i - 1
    /\ scans >= 2 =>
         /\ label_list = prev_label_list
         /\ label_to_id = prev_label_to_id

\* A second run on two sequences that repeat a tag and are not in sorted order.
C7_Witness ==
    /\ scans >= 2
    /\ Len(train_labels) = 2
    /\ train_labels[1] = <<"O", "I-LOC">>
    /\ train_labels[2] = <<"B-LOC", "O">>
    /\ label_list = <<"B-LOC", "I-LOC", "O">>

MissingSplit ==
    \/ training_args.do_train /\ "train" \notin DOMAIN raw_datasets
    \/ training_args.do_eval /\ "validation" \notin DOMAIN raw_datasets
    \/ training_args.do_predict /\ "test" \notin DOMAIN raw_datasets

\* C9: a run with no dataset source, with a requested phase whose split is
\* missing, or with load_adapter or load_lang_adapter and no train_adapter,
\* executes no model loading step.
C9_Original ==
    (NoDatasetSource(data_args) \/ MissingSplit \/ LoadWithoutTraining(adapter_args))
        => loaded = <<>>

\* The dataset files supplied to a run.
SuppliedFiles ==
    {data_args.train_file, data_args.validation_file, data_args.test_file} \ {NoFile}

\* C10: no configuration with a supplied dataset file (train_file,
\* validation_file, test_file) of an extension other than csv or json is
\* accepted by the construction of the arguments.
C10_Original ==
    pc \notin {"parse", "raised"} => \A file \in SuppliedFiles : ValidExtension(file)

OutputDirError == "ValueError: Output directory already exists and is not empty."
PastCheckpointDetection == pc \notin {"parse", "detect_checkpoint"}

NoSourceError == "ValueError: Need either a dataset name or a training/validation file."
ConstructionErrors ==
    {NoSourceError, "AssertionError: train_file should be a csv or a json file.",
     "AssertionError: validation_file should be a csv or a json file."}

\* C12: the construction of the data arguments fails with the ValueError
\* exactly when dataset_name, train_file and validation_file are all None;
\* with one of the three supplied, files having a csv or json extension, it is
\* accepted; with only test_file supplied it is rejected.
C12_NoSourceRejected ==
    pc # "parse" =>
        LET none_given == /\ data_args.dataset_name = "None"
                          /\ data_args.train_file = <<>>
                          /\ data_args.validation_file = <<>>
            valid(file) == file = <<>> \/ file[Len(file)] \in {"csv", "json"}
        IN /\ error = NoSourceError <=> none_given
           /\ none_given => pc = "raised"
           /\ (~none_given /\ valid(data_args.train_file) /\ valid(data_args.validation_file))
                => error \notin ConstructionErrors

\* A run given only test_file has been rejected, with the ValueError.
C12_Witness ==
    /\ pc = "raised"
    /\ error = NoSourceError
    /\ data_args.test_file = <<"data", "csv">>
    /\ data_args.train_file = <<>>

HasSourceName(p) ==
    \E i \in 1..(Len(p) - 9) : SubSeq(p, i, i + 9) = "embedding_"
PresentSources == {k \in 1..6 : embedding_sources[k] # "None"}

\* C13: the composer setup leaves every parameter of model.bert whose name
\* contains "embedding_" with requires_grad False, and every parameter whose
\* name does not contain it with the trainability it had, whatever the number
\* of sources present.
C13_FreezeByName ==
    [][(pc = "composer" /\ (model_args.use_metaemb \/ model_args.use_domain_metaemb)) =>
          \A p \in DOMAIN requires_grad' :
              /\ HasSourceName(p) => ~requires_grad'[p]
              /\ ~HasSourceName(p) =>
                    requires_grad'[p] = IF p \in DOMAIN requires_grad
                                        THEN requires_grad[p] ELSE TRUE]_vars

\* The composer has been set up with four sources that were trainable when
\* loaded: their tables are frozen, the combination weights and the encoder
\* are trainable.
C13_Witness ==
    /\ pc = "adapters"
    /\ embeddings = "BertMetaDomainEmbed"
    /\ env.sources_trainable
    /\ model_args.use_attention
    /\ PresentSources = {1, 2, 3, 5}
    /\ ~requires_grad["embeddings.embedding_5.word_embeddings.weight"]
    /\ requires_grad["embeddings.attention.weight"]
    /\ requires_grad["encoder.layer.0.attention.self.query.weight"]

\* C14: requires_grad is written only by the setup steps that precede the
\* construction of the Trainer (the freeze loop of the composer, and
\* model.train_adapter when train_adapter is set); no step from the tokenizer
\* check on, trainer.train included, changes a flag; and a flag the freeze loop
\* set to False is not True after a later setup step.
C14_FlagsSetOnce ==
    [][/\ (pc \notin {"load_model", "composer", "adapters"} \/ trainer_built)
            => requires_grad' = requires_grad
       /\ pc = "adapters" =>
            \A p \in DOMAIN requires_grad :
                (HasSourceName(p) /\ ~requires_grad[p])
                    => (p \in DOMAIN requires_grad' /\ ~requires_grad'[p])]_vars

\* Training has run on a composite whose sources were frozen by the loop and
\* on an adapter made trainable by model.train_adapter.
C14_Witness ==
    /\ pc = "evaluate"
    /\ phases = <<"train">>
    /\ adapter_args.train_adapter
    /\ embeddings = "BertMetaEmbed"
    /\ env.sources_trainable
    /\ ~requires_grad["embeddings.embedding_2.word_embeddings.weight"]
    /\ requires_grad["encoder.layer.0.output.adapters.conll2003.adapter_up.weight"]
    /\ ~requires_grad["pooler.dense.weight"]

ConfiguredPath(k) ==
    <<model_args.model_name_or_path, model_args.model_name_or_path_2,
      model_args.model_name_or_path_3, model_args.model_name_or_path_4,
      model_args.model_name_or_path_5, model_args.model_name_or_path_6>>[k]

\* C15: in both composer variants an optional source k in 3..6 is passed to
\* the composite module as None exactly when model_name_or_path_k is unset and
\* as the embedding loaded from that path otherwise; in the domain variant the
\* tokenizer of each source is passed or None together with its embedding; and
\* the setup with only sources 1 and 2 configured ends without error.
C15_AbsentSourcesPassedAsNone ==
    embedding_sources # <<>> =>
        /\ \A k \in 3..6 :
              /\ embedding_sources[k] = "None" <=> ConfiguredPath(k) = "None"
              /\ ConfiguredPath(k) # "None"
                    => embedding_sources[k] = "BertEmbed:" \o ConfiguredPath(k)
        /\ embedding_sources[1] # "None" /\ embedding_sources[2] # "None"
        /\ embeddings = "BertMetaDomainEmbed" =>
              \A k \in 1..6 :
                  /\ tokenizer_sources[k] = "None" <=> embedding_sources[k] = "None"
                  /\ (k >= 3 /\ ConfiguredPath(k) # "None")
                        => tokenizer_sources[k] = "AutoTokenizer:" \o ConfiguredPath(k)
        /\ (\A k \in 3..6 : ConfiguredPath(k) = "None")
              => (error = "none" /\ pc # "raised" /\ PresentSources = {1, 2})

\* The domain composite has been built from sources 1, 2 and 6, sources 3 to 5
\* being unset.
C15_Witness ==
    /\ pc = "adapters"
    /\ embeddings = "BertMetaDomainEmbed"
    /\ model_args.model_name_or_path_3 = "None"
    /\ model_args.model_name_or_path_6 # "None"
    /\ PresentSources = {1, 2, 6}
    /\ tokenizer_sources[5] = "None"
    /\ tokenizer_sources[6] = "AutoTokenizer:bert-mlm-emb-other"

\* The positions of a row of gold labels that are not -100, in order.
KeptPositions(gold) ==
    LET kept == {j \in 1..Len(gold) : gold[j] # -100}
    IN CHOOSE K \in [1..Cardinality(kept) -> kept] :
           \A a, b \in 1..Cardinality(kept) : a < b => K[a] < K[b]
\* The index of the largest logit of position j of example i.
PredictedIndex(i, j) ==
    CHOOSE c \in 0..2 : \A o \in 0..2 :
        env.predict_output.predictions[i][j][o + 1] <= env.predict_output.predictions[i][j][c + 1]
\* The tags of a line: a line is its tags with one space between neighbours.
RECURSIVE LineOf(_)
LineOf(tags) ==
    IF Len(tags) = 0 THEN ""
    ELSE IF Len(tags) = 1 THEN tags[1]
    ELSE LineOf(SubSeq(tags, 1, Len(tags) - 1)) \o " " \o tags[Len(tags)]

\* C16: when do_predict is set, predictions.txt holds one line per prediction
\* example, in dataset order, each line the space-joined predicted tags of
\* exactly the positions whose gold label is not -100; it is written only by
\* the world-process-zero process, after the predict metrics are saved.
C16_PredictionsFile ==
    pc = "done" =>
        LET gold == env.predict_output.label_ids IN
        IF training_args.do_predict /\ env.world_process_zero
        THEN /\ Len(predictions_file) = Len(gold)
             /\ \A i \in 1..Len(gold) :
                   predictions_file[i] =
                       LineOf([a \in 1..Len(KeptPositions(gold[i])) |->
                                 label_list[PredictedIndex(i, KeptPositions(gold[i])[a]) + 1]])
             /\ Len(output_steps) >= 2
             /\ SubSeq(output_steps, Len(output_steps) - 1, Len(output_steps))
                    = <<"save_metrics:predict", "write:predictions.txt">>
        ELSE /\ predictions_file = <<>>
             /\ "write:predictions.txt" \notin Range(output_steps)

\* Two examples have been written, the first with every position kept, the
\* second without its last position, whose gold label is -100.
C16_Witness ==
    /\ pc = "done"
    /\ training_args.do_predict
    /\ env.world_process_zero
    /\ env.predict_output.label_ids = <<<<1, 2>>, <<1, IgnoreIndex>>>>
    /\ predictions_file = <<"B-LOC I-LOC", "I-LOC">>

\* The dictionary pairing each tag of label_list with its index.
TagIndexPairs == {<<PyStr(label_list[i]), i - 1>> : i \in 1..Len(label_list)}
\* The dictionary pairing each index of label_list with itself.
IndexIndexPairs == {<<PyInt(i - 1), i - 1>> : i \in 1..Len(label_list)}
Categorical == env.splits["train"].classlabel
NoDuplicates(ll) == \A i, j \in 1..Len(ll) : ll[i] = ll[j] => i = j

\* C17 as stated: once the configuration is loaded, label_to_id pairs the tags
\* of label_list with the indices 0..num_labels-1 and id2label is its inverse,
\* in the categorical path as in the scan path.
C17_Original ==
    loaded # <<>> =>
        /\ config.label2id = TagIndexPairs
        /\ config.id2label = {<<pair[2], pair[1]>> : pair \in TagIndexPairs}

\* C17 amended: label_list and label_to_id are assigned by one step, before
\* model loading, and no other step changes them; label_list has no duplicate
\* and num_labels entries; in the scan path label_to_id pairs each tag with its
\* index in label_list, in the categorical path it pairs each index with
\* itself; in both paths id2label is the inverse of label_to_id.
C17_VocabularyFixed ==
    [][/\ pc # "label_list" => (label_list' = label_list /\ label_to_id' = label_to_id)
       /\ pc = "label_list" => loaded = <<>>
       /\ loaded' # <<>> =>
            /\ NoDuplicates(label_list')
            /\ config'.num_labels = Len(label_list')
            /\ config'.label2id = IF Categorical THEN IndexIndexPairs' ELSE TagIndexPairs'
            /\ config'.id2label = {<<pair[2], pair[1]>> : pair \in config'.label2id}]_vars

\* A run on scanned tags has finished with the vocabulary it built before the
\* model was loaded.
C17_Witness ==
    /\ pc = "done"
    /\ ~Categorical
    /\ adapter_args.train_adapter
    /\ label_list = <<"B-LOC", "O">>
    /\ config.id2label = {<<0, PyStr("B-LOC")>>, <<1, PyStr("O")>>}

\* C18: a run substitutes model.bert.embeddings at most once; the composer
\* setup installs BertMetaEmbed when use_metaemb is set, use_domain_metaemb set
\* or not, BertMetaDomainEmbed when only use_domain_metaemb is set, and with
\* neither it leaves the native module and every requires_grad flag as they
\* are; no other step substitutes the module, so the native one never returns.
C18_VariantSelection ==
    [][/\ substitutions' <= 1
       /\ embeddings # "BertEmbeddings" => embeddings' = embeddings
       /\ pc # "composer" => (substitutions' = substitutions /\ embeddings' = embeddings)
       /\ pc = "composer" =>
            /\ model_args.use_metaemb
                 => (embeddings' = "BertMetaEmbed" /\ substitutions' = 1)
            /\ (~model_args.use_metaemb /\ model_args.use_domain_metaemb)
                 => (embeddings' = "BertMetaDomainEmbed" /\ substitutions' = 1)
            /\ (~model_args.use_metaemb /\ ~model_args.use_domain_metaemb)
                 => /\ embeddings' = "BertEmbeddings"
                    /\ substitutions' = 0
                    /\ requires_grad' = requires_grad]_vars

\* A run with both flags set has finished on the plain composite, installed
\* once, with no tokenizers of the domain variant.
C18_Witness ==
    /\ pc = "done"
    /\ model_args.use_metaemb
    /\ model_args.use_domain_metaemb
    /\ embeddings = "BertMetaEmbed"
    /\ substitutions = 1
    /\ tokenizer_sources = <<>>

\* C19: trainer.train is given resume_from_checkpoint when it is set; otherwise
\* the last checkpoint of the output directory, looked up only when the
\* directory exists, do_train is set and overwrite_output_dir is not; otherwise
\* None. With overwrite_output_dir a checkpoint of the directory is never
\* resumed implicitly.
C19_CheckpointSelection ==
    /\ last_checkpoint # "None" =>
          /\ env.output_dir = "checkpoint"
          /\ training_args.do_train
          /\ ~training_args.overwrite_output_dir
    /\ "train" \in Range(phases) =>
          checkpoint =
              IF training_args.resume_from_checkpoint # "None"
              THEN training_args.resume_from_checkpoint
              ELSE IF env.output_dir = "checkpoint" /\ ~training_args.overwrite_output_dir
              THEN "checkpoint-500"
              ELSE "None"
    /\ "train" \notin Range(phases) => checkpoint = "None"

\* Training has resumed from the explicit checkpoint although the output
\* directory held a detected one.
C19_Witness ==
    /\ "train" \in Range(phases)
    /\ training_args.resume_from_checkpoint = "checkpoint-100"
    /\ last_checkpoint = "checkpoint-500"
    /\ checkpoint = "checkpoint-100"

\* C20: a run without dataset name that is given only validation_file, of a
\* csv or json extension, for evaluation only, raises no error before the
\* trainer is built.
C20_Original ==
    (/\ data_args.dataset_name = "None"
     /\ data_args.train_file = <<>>
     /\ data_args.validation_file \in {<<"data", "csv">>, <<"data", "json">>}
     /\ ~training_args.do_train
     /\ training_args.do_eval
     /\ ~training_args.do_predict
     /\ ~LoadWithoutTraining(adapter_args)
     /\ ~trainer_built)
        => pc # "raised"

====
